---- MODULE Spec2Model ----
(***************************************************************************)
(* A model of RoziSec/Database-Operation, src/sql.py: the class SQLiteDB,  *)
(* a wrapper around one sqlite3 connection.                                *)
(*                                                                         *)
(* The database holds one table t(id INTEGER PRIMARY KEY, val).  The       *)
(* sqlite3 driver is modelled by the Drv* operators: handles are numbered  *)
(* in the order they are opened, each handle has its own pending           *)
(* transaction, and the environment chooses, for every operation, which of *)
(* its driver calls raise a driver error (sqlite3.Error) without effect    *)
(* (w.fails: the positions of those calls).  The methods of SQLiteDB       *)
(* are operators from a world (the instance, the driver and the file       *)
(* system) to an outcome [w, exc, val]: the world after the call, the      *)
(* exception that escapes it ("none" when it returns) and what it returns. *)
(* Every driver call and every log line of a call is appended to w.trace.  *)
(***************************************************************************)
EXTENDS Integers, Sequences, FiniteSets, TLC

\* ------------------------------------------------------------------ bounds
MaxId      == 2   \* primary keys are 1..MaxId
MaxHandles == 2   \* connections the driver opens in one behaviour
MaxDepth   == 1   \* nested `with db:` / `with db.transaction():` blocks
MaxBatch   == 2   \* records of one executemany / insert_many
MaxFails   == 1   \* driver calls of one operation that the environment fails
MaxPage    == 2   \* the largest limit and offset passed to select
MaxChanges == 3   \* the largest value of a connection's total_changes
MaxCallers == 3   \* threads that call Logger() after the import of loguru.py
MaxCalls   == 2   \* calls of Logger() by one thread

Ids     == 1..MaxId
\* One operation opens at most two handles beyond the bound before its step
\* is discarded.
HandleIds == 1..(MaxHandles + 2)

\* ------------------------------------------------------------------ values
\* An SQLite value: its storage class and a payload (a number; a text or a
\* blob is named by a number too, so that all values are comparable).
IntV(n)  == [t |-> "int",  v |-> n]
RealV(n) == [t |-> "real", v |-> n]
TextV(n) == [t |-> "text", v |-> n]
BlobV(n) == [t |-> "blob", v |-> n]
NullV    == [t |-> "null", v |-> 0]

\* The values the operations of Spec write, and the ones a table of SpecRT holds.
OpVals  == {IntV(7)}
AllVals == {IntV(7), TextV(7), RealV(7), NullV, BlobV(7)}

Row(i, v) == [id |-> i, val |-> v]

\* A table: absent, or a set of rows with distinct primary keys.
NoTable     == [exists |-> FALSE, rows |-> {}]
Table(rows) == [exists |-> TRUE, rows |-> rows]
HasId(tbl, i) == \E r \in tbl.rows : r.id = i

RECURSIVE RowSeqFrom(_, _)
RowSeqFrom(rows, i) ==
  IF i > MaxId + 1 THEN <<>>
  ELSE (IF \E r \in rows : r.id = i
          THEN <<CHOOSE r \in rows : r.id = i>> ELSE <<>>) \o RowSeqFrom(rows, i + 1)
\* The rows in rowid order, as SELECT * returns them.
RowSeq(rows) == RowSeqFrom(rows, 1)

\* A handle's pending transaction: none, or the table as the handle sees it.
NoTxn      == [active |-> FALSE, tbl |-> NoTable]
InTxn(tbl) == [active |-> TRUE, tbl |-> tbl]

\* ---------------------------------------------------------------- the file
NoFile        == [state |-> "none", doc |-> <<>>]
JsonFile(doc) == [state |-> "json", doc |-> doc]
\* What open(path, 'w') and an aborted json.dump leave: not a JSON document.
BrokenFile    == [state |-> "broken", doc |-> <<>>]

\* --------------------------------------------------------------- outcomes
\* What a call returns: a kind, a number, rows, and a cursor's second number.
RetNone      == [t |-> "None",   n |-> 0, rows |-> <<>>, last |-> 0]
RetBool(b)   == [t |-> IF b THEN "True" ELSE "False", n |-> 0, rows |-> <<>>, last |-> 0]
RetInt(n)    == [t |-> "int",    n |-> n, rows |-> <<>>, last |-> 0]
RetRows(s)   == [t |-> "rows",   n |-> Len(s), rows |-> s, last |-> 0]
RetRow(r)    == [t |-> "row",    n |-> 1, rows |-> <<r>>, last |-> 0]
RetHandle(h) == [t |-> "handle", n |-> h, rows |-> <<>>, last |-> 0]
\* A cursor: rowcount, the rows to fetch, and lastrowid (COUNT(*) for a count).
RetCursor(c) == [t |-> "cursor", n |-> c.rowcount, rows |-> c.rows, last |-> c.n]

Out(w, exc, val) == [w |-> w, exc |-> exc, val |-> val]

\* sqlite3.Error and its subclasses, as opposed to "none", the exception
\* "body" of a caller's own code, and the errors of json and of the file.
DriverErrors == {"E_probe", "E_open", "E_execute", "E_executemany", "E_commit",
                 "E_rollback", "E_close", "E_closed", "E_integrity", "E_notable",
                 "E_locked", "E_syntax"}
IsSqliteError(e) == e \in DriverErrors

\* ------------------------------------------------------------------ trace
Event(k, h, ok, live, e) == [k |-> k, h |-> h, ok |-> ok, live |-> live, e |-> e]
Emit(w, ev) == [w EXCEPT !.trace = Append(@, ev)]
Log(w, level, e) == Emit(w, Event(level, 0, TRUE, TRUE, e))

\* ----------------------------------------------------------------- driver
LogKinds == {"log_debug", "log_info", "log_error"}
\* The driver calls the running operation has made so far.
NCalls(w) == Cardinality({i \in 1..Len(w.trace) : w.trace[i].k \notin LogKinds})
\* The driver call about to be made is one the environment makes fail.
Failing(w) == (NCalls(w) + 1) \in w.fails

\* The table as handle h reads it.
ViewOf(w, h) == IF w.txn[h].active THEN w.txn[h].tbl ELSE w.disk
\* Another handle holds the write lock.
Locked(w, h) == \E g \in w.opened : g # h /\ w.txn[g].active

\* sqlite3.connect: a new handle, or a driver error.
DrvConnect(w) ==
  IF Failing(w)
    THEN Out(Emit(w, Event("open", 0, FALSE, TRUE, "E_open")), "E_open", RetNone)
    ELSE LET h == w.handles + 1 IN
         Out(Emit([w EXCEPT !.handles = h, !.opened = @ \cup {h}],
                  Event("open", h, TRUE, TRUE, "none")), "none", RetHandle(h))

\* A statement: its kind, the bound id and value, and LIMIT / OFFSET (-1: none).
Stmt(k, i, v) == [k |-> k, id |-> i, val |-> v, limit |-> -1, offset |-> -1]
Select1       == Stmt("select1", 0, NullV)
SubSeqFrom(s, from, n) ==
  [i \in 1..(IF Len(s) - from < n THEN (IF Len(s) > from THEN Len(s) - from ELSE 0) ELSE n)
     |-> s[from + i]]

\* The effect of one statement on a table: the error, the table after it, the
\* rows it returns, cursor.rowcount and a number (COUNT(*), cursor.lastrowid).
Effect(tbl, st) ==
  LET res(e, t, rs, rc, n) == [exc |-> e, tbl |-> t, rows |-> rs, rowcount |-> rc, n |-> n] IN
  CASE st.k = "select1" -> res("none", tbl, <<Row(1, IntV(1))>>, -1, 0)
    [] st.k = "create"  ->   \* CREATE TABLE IF NOT EXISTS
         res("none", IF tbl.exists THEN tbl ELSE Table({}), <<>>, -1, 0)
    [] st.k = "drop"    ->   \* DROP TABLE IF EXISTS
         res("none", NoTable, <<>>, -1, 0)
    [] st.k = "select" /\ st.limit < 0 /\ st.offset >= 0 ->   \* OFFSET without LIMIT
         res("E_syntax", tbl, <<>>, -1, 0)
    [] ~tbl.exists      -> res("E_notable", tbl, <<>>, -1, 0)
    [] st.k = "select"  ->
         res("none", tbl,
             SubSeqFrom(RowSeq(tbl.rows), IF st.offset < 0 THEN 0 ELSE st.offset,
                        IF st.limit < 0 THEN Cardinality(tbl.rows) ELSE st.limit), -1, 0)
    [] st.k = "count"   -> res("none", tbl, <<>>, -1, Cardinality(tbl.rows))
    [] st.k = "insert"  ->
         IF HasId(tbl, st.id) THEN res("E_integrity", tbl, <<>>, -1, 0)
         ELSE res("none", Table(tbl.rows \cup {Row(st.id, st.val)}), <<>>, 1, st.id)
    [] st.k = "replace" ->   \* INSERT OR REPLACE
         res("none", Table({r \in tbl.rows : r.id # st.id} \cup {Row(st.id, st.val)}),
             <<>>, 1, st.id)
    [] st.k = "update"  ->   \* UPDATE t SET val = ? WHERE id = ?
         IF HasId(tbl, st.id)
           THEN res("none", Table({IF r.id = st.id THEN Row(r.id, st.val) ELSE r
                                     : r \in tbl.rows}), <<>>, 1, 0)
           ELSE res("none", tbl, <<>>, 0, 0)
    [] st.k = "delete"  ->   \* DELETE FROM t WHERE id = ?
         res("none", Table({r \in tbl.rows : r.id # st.id}), <<>>,
             IF HasId(tbl, st.id) THEN 1 ELSE 0, 0)

IsDml(st) == st.k \in {"insert", "replace", "update", "delete"}
IsDdl(st) == st.k \in {"create", "drop"}

\* The world and the cursor after a statement with effect eff on handle h.
\* The sqlite3 module opens a transaction before INSERT, UPDATE and DELETE;
\* DDL joins an open transaction and is written at once without one.
ApplyEffect(w, h, st, eff) ==
  LET cur(e, ww) == [w |-> ww, exc |-> e, rows |-> eff.rows, rowcount |-> eff.rowcount,
                     n |-> eff.n]
  IN
  IF (IsDml(st) \/ IsDdl(st)) /\ Locked(w, h) THEN
       [w |-> w, exc |-> "E_locked", rows |-> <<>>, rowcount |-> -1, n |-> 0]
  ELSE IF eff.exc # "none" THEN
       \* a statement that fails while it runs has still opened the transaction
       cur(eff.exc, IF eff.exc = "E_integrity"
                      THEN [w EXCEPT !.txn[h] = InTxn(ViewOf(w, h))] ELSE w)
  ELSE IF IsDml(st) \/ (IsDdl(st) /\ w.txn[h].active) THEN
       cur("none", [w EXCEPT !.txn[h] = InTxn(eff.tbl)])
  ELSE IF IsDdl(st) THEN cur("none", [w EXCEPT !.disk = eff.tbl])
  ELSE cur("none", w)

\* Statement st on handle h, without the trace.
Apply(w, h, st) == ApplyEffect(w, h, st, Effect(ViewOf(w, h), st))

\* The driver call k on the open handle h has ended with the cursor a.
Traced(k, h, a) == [a EXCEPT !.w = Emit(a.w, Event(k, h, a.exc = "none", TRUE, a.exc))]
\* The driver call k on handle h raises e.
Raised(k, w, h, e, live) ==
  [w |-> Emit(w, Event(k, h, FALSE, live, e)), exc |-> e, rows |-> <<>>, rowcount |-> -1,
   n |-> 0]

\* Connection.execute(sql, params), traced as call k ("execute" or "probe").
DrvExecuteAs(k, w, h, st) ==
  IF h \notin w.opened THEN Raised(k, w, h, "E_closed", FALSE)
  ELSE IF Failing(w) THEN Raised(k, w, h, "E_" \o k, TRUE)
  ELSE Traced(k, h, Apply(w, h, st))

DrvExecute(w, h, st) == DrvExecuteAs("execute", w, h, st)

RECURSIVE ApplyAll(_, _, _, _)
\* executemany after a statement with cursor a: stop at its error, else go on.
ApplyRest(a, h, sts, n) ==
  IF a.exc # "none" THEN [a EXCEPT !.rowcount = -1]
  ELSE ApplyAll(a.w, h, sts, n + a.rowcount)

\* The statements of an executemany, one after the other, up to the first error.
ApplyAll(w, h, sts, n) ==
  IF sts = <<>> THEN [w |-> w, exc |-> "none", rows |-> <<>>, rowcount |-> n, n |-> 0]
  ELSE ApplyRest(Apply(w, h, Head(sts)), h, Tail(sts), n)

\* Connection.executemany(sql, params_list).
DrvExecuteMany(w, h, sts) ==
  IF h \notin w.opened THEN Raised("executemany", w, h, "E_closed", FALSE)
  ELSE IF Failing(w) THEN Raised("executemany", w, h, "E_executemany", TRUE)
  ELSE Traced("executemany", h, ApplyAll(w, h, sts, 0))

\* Connection.commit().
DrvCommit(w, h) ==
  IF h \notin w.opened THEN
       Out(Emit(w, Event("commit", h, FALSE, FALSE, "E_closed")), "E_closed", RetNone)
  ELSE IF Failing(w) THEN
       Out(Emit(w, Event("commit", h, FALSE, TRUE, "E_commit")), "E_commit", RetNone)
  ELSE Out(Emit([w EXCEPT !.disk = ViewOf(w, h), !.txn[h] = NoTxn],
                Event("commit", h, TRUE, TRUE, "none")), "none", RetNone)

\* Connection.rollback().
DrvRollback(w, h) ==
  IF h \notin w.opened THEN
       Out(Emit(w, Event("rollback", h, FALSE, FALSE, "E_closed")), "E_closed", RetNone)
  ELSE IF Failing(w) THEN
       Out(Emit(w, Event("rollback", h, FALSE, TRUE, "E_rollback")), "E_rollback", RetNone)
  ELSE Out(Emit([w EXCEPT !.txn[h] = NoTxn],
                Event("rollback", h, TRUE, TRUE, "none")), "none", RetNone)

\* Connection.close(): the pending transaction is discarded.
DrvClose(w, h) ==
  IF Failing(w) THEN
       Out(Emit(w, Event("close", h, FALSE, h \in w.opened, "E_close")), "E_close", RetNone)
  ELSE Out(Emit([w EXCEPT !.opened = @ \ {h}, !.txn[h] = NoTxn],
                Event("close", h, TRUE, h \in w.opened, "none")), "none", RetNone)

\* ------------------------------------------------- SQLiteDB: the connection
\* The table as the instance reads it through its cached handle.
TableView(w) == IF w.connection \in w.opened THEN ViewOf(w, w.connection) ELSE w.disk

\* _is_connection_closed, after the probe p: any driver error means closed.
ProbeResult(p) == [w |-> p.w, closed |-> p.exc # "none"]
\* _is_connection_closed: SELECT 1 on the cached handle.
IsConnectionClosed(w) == ProbeResult(DrvExecuteAs("probe", w, w.connection, Select1))

\* connect(), after sqlite3.connect ended with c: log, cache the handle or raise.
ConnectResult(c) ==
  IF c.exc # "none" THEN Out(Log(c.w, "log_error", c.exc), c.exc, RetNone)
  ELSE Out(Log([c.w EXCEPT !.connection = c.val.n], "log_info", "none"), "none", c.val)
\* connect(), after the test p of the cached handle h.
ConnectIfClosed(h, p) ==
  IF p.closed THEN ConnectResult(DrvConnect(p.w)) ELSE Out(p.w, "none", RetHandle(h))
\* connect(): the cached handle when it answers the probe, else a new one.
Connect(w) ==
  ConnectIfClosed(w.connection,
                  IF w.connection = 0 THEN [w |-> w, closed |-> TRUE]
                  ELSE IsConnectionClosed(w))

\* close(), after the driver's close ended with c: forget the handle, or log
\* the driver error.
CloseResult(c) ==
  IF c.exc = "none"
    THEN Out(Log([c.w EXCEPT !.connection = 0], "log_info", "none"), "none", RetNone)
    ELSE Out(Log(c.w, "log_error", c.exc), "none", RetNone)
\* close(): closes the cached handle; nothing without one.
Close(w) ==
  IF w.connection # 0 THEN CloseResult(DrvClose(w, w.connection))
  ELSE Out(w, "none", RetNone)

\* execute(), after the driver call ended with x: log and raise, or the cursor.
ExecuteResult(x) ==
  IF x.exc # "none" THEN Out(Log(x.w, "log_error", x.exc), x.exc, RetNone)
  ELSE Out(Log(x.w, "log_debug", "none"), "none", RetCursor(x))
\* execute(), after connect() ended with c.
ExecuteTry(c, st) ==
  IF c.exc # "none" THEN Out(c.w, c.exc, RetNone)
  ELSE ExecuteResult(DrvExecute(c.w, c.val.n, st))
\* execute(sql, params): connect() first, outside the try.
Execute(w, st) == ExecuteTry(Connect(w), st)

\* executemany(), after the driver call ended with x.
ExecuteManyResult(x) ==
  IF x.exc # "none" THEN Out(Log(x.w, "log_error", x.exc), x.exc, RetNone)
  ELSE Out(Log(x.w, "log_debug", "none"), "none", RetCursor(x))
\* executemany(), after connect() ended with c.
ExecuteManyTry(c, sts) ==
  IF c.exc # "none" THEN Out(c.w, c.exc, RetNone)
  ELSE ExecuteManyResult(DrvExecuteMany(c.w, c.val.n, sts))
\* executemany(sql, params_list).
ExecuteMany(w, sts) == ExecuteManyTry(Connect(w), sts)

\* commit(), after the driver call ended with c.
CommitResult(c) ==
  IF c.exc # "none" THEN Out(Log(c.w, "log_error", c.exc), c.exc, RetNone)
  ELSE Out(Log(c.w, "log_debug", "none"), "none", RetNone)
\* commit(): nothing without a cached handle.
Commit(w) ==
  IF w.connection # 0 THEN CommitResult(DrvCommit(w, w.connection))
  ELSE Out(w, "none", RetNone)

\* rollback(), after the driver call ended with c.
RollbackResult(c) ==
  IF c.exc # "none" THEN Out(Log(c.w, "log_error", c.exc), c.exc, RetNone)
  ELSE Out(Log(c.w, "log_debug", "none"), "none", RetNone)
\* rollback(): nothing without a cached handle.
Rollback(w) ==
  IF w.connection # 0 THEN RollbackResult(DrvRollback(w, w.connection))
  ELSE Out(w, "none", RetNone)

\* __enter__: connect().
Enter(w) == Connect(w)

\* __exit__, after its rollback() ended with r: close() unless it raised.  It
\* returns None, so e goes on to the caller.
ExitClose(r, e) == IF r.exc # "none" THEN r ELSE Out(Close(r.w).w, e, RetNone)
\* __exit__(exc_type, ...): rollback() when the block raised e, then close().
Exit(w, e) == ExitClose(IF e # "none" THEN Rollback(w) ELSE Out(w, "none", RetNone), e)

\* transaction(), up to the yield: conn = self.connect().
TransactionEnter(w) == Connect(w)

\* transaction(), the except clause after conn.rollback() ended with r: the
\* log line and raise, unless the rollback raised.
TransactionRaise(r, e) ==
  IF r.exc # "none" THEN Out(r.w, r.exc, RetNone)
  ELSE Out(Log(r.w, "log_error", e), e, RetNone)
\* transaction(), the except clause: conn.rollback(), the log line, raise.
TransactionExcept(w, conn, e) == TransactionRaise(DrvRollback(w, conn), e)

\* transaction(), after conn.commit() ended with c.
TransactionCommitted(c, conn) ==
  IF c.exc = "none" THEN Out(Log(c.w, "log_info", "none"), "none", RetNone)
  ELSE TransactionExcept(c.w, conn, c.exc)
\* transaction(), after the yield: the body ended with e ("none": normally).
TransactionExit(w, conn, e) ==
  IF e = "none" THEN TransactionCommitted(DrvCommit(w, conn), conn)
  ELSE TransactionExcept(w, conn, e)

\* try: ... except sqlite3.Error: log, return the failure value.
SoftFail(r, failure) ==
  IF IsSqliteError(r.exc) THEN Out(Log(r.w, "log_error", r.exc), "none", failure) ELSE r

\* The end of a table operation whose calls ended with c: the log line and
\* val, or the failure value.
Returns(c, level, val, failure) ==
  IF c.exc = "none" THEN Out(Log(c.w, level, "none"), "none", val)
  ELSE SoftFail(c, failure)

\* self.commit() after self.execute() ended with x; the cursor is kept.
CommitKeeping(c, cursor) == Out(c.w, c.exc, cursor)
ThenCommit(x) == IF x.exc = "none" THEN CommitKeeping(Commit(x.w), x.val) ELSE x

\* ---------------------------------------------- SQLiteDB: table operations
\* create_table(name, columns): CREATE TABLE IF NOT EXISTS, commit.
CreateTableResult(c) == Returns(c, "log_info", RetBool(TRUE), RetBool(FALSE))
CreateTable(w) == CreateTableResult(ThenCommit(Execute(w, Stmt("create", 0, NullV))))

\* drop_table(name): DROP TABLE IF EXISTS, commit.
DropTableResult(c) == Returns(c, "log_info", RetBool(TRUE), RetBool(FALSE))
DropTable(w) == DropTableResult(ThenCommit(Execute(w, Stmt("drop", 0, NullV))))

InsertStmt(row, or_replace) == Stmt(IF or_replace THEN "replace" ELSE "insert", row.id, row.val)
InsertStmts(rows, or_replace) == [i \in 1..Len(rows) |-> InsertStmt(rows[i], or_replace)]

\* insert(table, data, or_replace): execute, commit, cursor.lastrowid.
InsertResult(c) == Returns(c, "log_info", RetInt(c.val.last), RetNone)
Insert(w, row, or_replace) == InsertResult(ThenCommit(Execute(w, InsertStmt(row, or_replace))))

\* insert_many, the end: True, or False on a driver error.
InsertManyResult(x) == Returns(x, "log_info", RetBool(TRUE), RetBool(FALSE))
\* insert_many, the end of the with block whose body ended with b.
InsertManyExit(b, conn) == TransactionExit(b.w, conn, b.exc)
\* insert_many, the with block after transaction() was entered with t.
InsertManyScope(t, sts) ==
  IF t.exc = "none" THEN InsertManyExit(ExecuteMany(t.w, sts), t.val.n) ELSE t
\* insert_many(table, data_list, or_replace): executemany in a transaction().
InsertMany(w, rows, or_replace) ==
  IF rows = <<>> THEN Out(w, "none", RetBool(TRUE))
  ELSE InsertManyResult(InsertManyScope(TransactionEnter(w), InsertStmts(rows, or_replace)))

\* The statement of select: LIMIT and OFFSET are added only when truthy (-1
\* stands for None).
SelectStmt(limit, offset) ==
  [Stmt("select", 0, NullV) EXCEPT !.limit  = IF limit > 0 THEN limit ELSE -1,
                                   !.offset = IF offset > 0 THEN offset ELSE -1]
SelectResult(x) == Returns(x, "log_debug", RetRows(x.val.rows), RetRows(<<>>))
\* select(table, limit=, offset=): the rows, [] on a driver error.
Select(w, limit, offset) == SelectResult(Execute(w, SelectStmt(limit, offset)))

\* select_one(table): select with limit=1, the first row or None.
SelectOneResult(r) ==
  Out(r.w, r.exc, IF r.val.rows # <<>> THEN RetRow(r.val.rows[1]) ELSE RetNone)
SelectOne(w) == SelectOneResult(Select(w, 1, -1))

\* update(table, data, where, where_params): execute, commit, cursor.rowcount.
UpdateResult(c) == Returns(c, "log_info", RetInt(c.val.n), RetInt(0))
Update(w, i, v) == UpdateResult(ThenCommit(Execute(w, Stmt("update", i, v))))

\* delete(table, where, params): execute, commit, cursor.rowcount.
DeleteResult(c) == Returns(c, "log_info", RetInt(c.val.n), RetInt(0))
Delete(w, i) == DeleteResult(ThenCommit(Execute(w, Stmt("delete", i, NullV))))

\* count(table): SELECT COUNT(*), 0 on a driver error.
CountResult(x) ==
  IF x.exc = "none" THEN Out(x.w, "none", RetInt(x.val.last)) ELSE SoftFail(x, RetInt(0))
Count(w) == CountResult(Execute(w, Stmt("count", 0, NullV)))

\* ------------------------------------------------------------------- JSON
\* json.dump of the Python value sqlite3 hands out for an SQLite value: a
\* number (written with a fraction for a float), a string or null; bytes
\* have no encoding (TypeError).
JNumber(n, frac) == [j |-> "number", v |-> n, frac |-> frac]
JString(n)       == [j |-> "string", v |-> n, frac |-> FALSE]
JNull            == [j |-> "null",   v |-> 0, frac |-> FALSE]
Serializable(v)  == v.t # "blob"
JsonEncode(v) ==
  CASE v.t = "int"  -> JNumber(v.v, FALSE)
    [] v.t = "real" -> JNumber(v.v, TRUE)
    [] v.t = "text" -> JString(v.v)
    [] v.t = "null" -> JNull
\* JsonDecode with every number read as an int.
JsonDecodeAllInt(j) ==
  CASE j.j = "number" -> IntV(j.v)
    [] j.j = "string" -> TextV(j.v)
    [] j.j = "null"   -> NullV

\* json.load: a number without a fraction is an int, with one a float.
JsonDecode(j) ==
  CASE j.j = "number" /\ ~j.frac -> IntV(j.v)
    [] j.j = "number" /\ j.frac  -> RealV(j.v)
    [] j.j = "string"            -> TextV(j.v)
    [] j.j = "null"              -> NullV

\* dict(row), encoded: an object with the table's columns as keys.
JsonObject(r) == [id |-> JsonEncode(IntV(r.id)), val |-> JsonEncode(r.val)]
\* An object of the file, decoded, as the record insert_many binds.
RecordOf(o) == Row(JsonDecode(o.id).v, JsonDecode(o.val))

\* The JSON array json.dump writes for the rows, and the records json.load
\* reads from it.
JsonArray(rows)  == [i \in 1..Len(rows) |-> JsonObject(rows[i])]
JsonRecords(doc) == [i \in 1..Len(doc) |-> RecordOf(doc[i])]

\* export_to_json, after select ended with r: json.dump to the opened file.
ExportDump(r) ==
  IF \A i \in 1..Len(r.val.rows) : Serializable(r.val.rows[i].val)
    THEN Out(Log([r.w EXCEPT !.file = JsonFile(JsonArray(r.val.rows))],
                 "log_info", "none"), "none", RetBool(TRUE))
    ELSE Out(Log([r.w EXCEPT !.file = BrokenFile], "log_error", "TypeError"),
             "none", RetBool(FALSE))
\* export_to_json(table, path): select(table), then json.dump to the file.
ExportToJson(w) == ExportDump(Select(w, -1, -1))

\* import_from_json(table, path, or_replace): json.load, then insert_many.
ImportFromJson(w, or_replace) ==
  IF w.file.state = "none" THEN
       Out(Log(w, "log_error", "FileNotFoundError"), "none", RetBool(FALSE))
  ELSE IF w.file.state = "broken" THEN
       Out(Log(w, "log_error", "JSONDecodeError"), "none", RetBool(FALSE))
  ELSE IF w.file.doc # <<>> THEN InsertMany(w, JsonRecords(w.file.doc), or_replace)
  ELSE Out(w, "none", RetBool(TRUE))

\* ------------------------------------------------------------------ state
VARIABLES
  connection,  \* self.connection: 0 for None, else the cached handle
  handles,     \* the handles the driver has opened so far
  opened,      \* the handles that are open at the driver
  disk,        \* the committed table
  txn,         \* each handle's pending transaction
  file,        \* the JSON file of export_to_json / import_from_json
  stack,       \* the caller's open `with` blocks, innermost last
  obs,         \* the last operation: its name, input, outcome and trace
  rt,          \* the round trip export, drop, create, import: step and table
  args,        \* limit and offset of the last select (-1 for None)
  total_changes, \* dbSQLite.py: conn.total_changes, the rows changed since the connect
  imported,    \* loguru.py: the import of the module has ended
  instance,    \* loguru.py: _instance[Logger], 0 while Logger is not a key
  constructed, \* loguru.py: the runs of Logger.__init__ so far
  pc,          \* loguru.py: where each thread is in wrapper_class
  made,        \* loguru.py: the instance a thread has built and not yet stored
  calls,       \* loguru.py: the calls of Logger() each thread has ended
  results      \* loguru.py: the instances the calls have returned

dbVars  == <<connection, handles, opened, disk, txn, file, stack, obs, rt, args,
             total_changes>>
logVars == <<imported, instance, constructed, pc, made, calls, results>>
vars    == <<connection, handles, opened, disk, txn, file, stack, obs, rt, args,
             total_changes, imported, instance, constructed, pc, made, calls, results>>

\* Thread 0 imports loguru.py; the others call Logger().
Threads == 0..MaxCallers
\* loguru.py before its import.
LogInit ==
  /\ imported = FALSE
  /\ instance = 0
  /\ constructed = 0
  /\ pc = [t \in Threads |-> "idle"]
  /\ made = [t \in Threads |-> 0]
  /\ calls = [t \in Threads |-> 0]
  /\ results = {}

World(F) == [connection |-> connection, handles |-> handles, opened |-> opened,
             disk |-> disk, txn |-> txn, file |-> file, trace |-> <<>>, fails |-> F]

Obs(op, e, n, r) == [op |-> op, e |-> e, n |-> n, exc |-> r.exc, ret |-> r.val,
                     trace |-> r.w.trace]

\* select called without limit and offset, or another operation.
NoArgs == [limit |-> -1, offset |-> -1]

\* The step of an operation with outcome r, called with limit and offset a.
StepWith(op, e, n, r, a) ==
  /\ r.w.handles <= MaxHandles
  /\ connection' = r.w.connection
  /\ handles' = r.w.handles
  /\ opened' = r.w.opened
  /\ disk' = r.w.disk
  /\ txn' = r.w.txn
  /\ file' = r.w.file
  /\ obs' = Obs(op, e, n, r)
  /\ args' = a
  /\ UNCHANGED total_changes
  /\ UNCHANGED logVars

\* The step of an operation with outcome r.
Step(op, e, n, r) == StepWith(op, e, n, r, NoArgs)

\* The failure schedules of an operation that makes at most k driver calls.
FailSets(k) == {F \in SUBSET (1..k) : Cardinality(F) <= MaxFails}

\* A block of the caller: for a transaction(), its conn, the table as read at
\* its entry, and whether nothing was pending on conn then.
WithFrame         == [kind |-> "with", conn |-> 0, snap |-> NoTable, clean |-> TRUE]
TxnFrame(h, t, c) == [kind |-> "txn", conn |-> h, snap |-> t, clean |-> c]
Top            == stack[Len(stack)]
Pop            == SubSeq(stack, 1, Len(stack) - 1)

\* The exceptions that can leave a block: none, one of the caller's own code,
\* or the one the last operation raised.
BlockExcs == {"none", "body"} \cup (IF obs.exc # "none" THEN {obs.exc} ELSE {})

\* The batches of executemany and insert_many.
Batches == UNION {[1..n -> {Row(i, v) : i \in Ids, v \in OpVals}] : n \in 0..MaxBatch}
\* The statements a caller passes to execute().
RawStmts == {Stmt("insert", i, v) : i \in Ids, v \in OpVals}
              \cup {Stmt("delete", i, NullV) : i \in Ids}
              \cup {Stmt("select", 0, NullV)}

RtOff == [pc |-> "off", orig |-> NoTable]

Init ==
  /\ connection = 0
  /\ handles = 0
  /\ opened = {}
  /\ disk = Table({})
  /\ txn = [h \in HandleIds |-> NoTxn]
  /\ file = NoFile
  /\ stack = <<>>
  /\ obs = Obs("init", "none", 0, Out(World({}), "none", RetNone))
  /\ rt = RtOff
  /\ args = NoArgs
  /\ total_changes = 0
  /\ LogInit

\* ---------------------------------------------------------------- actions
DoConnect ==
  \E F \in FailSets(2) :
    Step("connect", "none", 0, Connect(World(F))) /\ UNCHANGED <<stack, rt>>

DoClose ==
  \E F \in FailSets(1) :
    Step("close", "none", 0, Close(World(F))) /\ UNCHANGED <<stack, rt>>

DoExecute ==
  \E F \in FailSets(3), st \in RawStmts :
    Step("execute", "none", 0, Execute(World(F), st)) /\ UNCHANGED <<stack, rt>>

DoExecuteMany ==
  \E F \in FailSets(3), rows \in Batches :
    Step("executemany", "none", Len(rows), ExecuteMany(World(F), InsertStmts(rows, FALSE)))
    /\ UNCHANGED <<stack, rt>>

DoCommit ==
  \E F \in FailSets(1) :
    Step("commit", "none", 0, Commit(World(F))) /\ UNCHANGED <<stack, rt>>

DoRollback ==
  \E F \in FailSets(1) :
    Step("rollback", "none", 0, Rollback(World(F))) /\ UNCHANGED <<stack, rt>>

\* The step of entering a block with outcome r: the block is open when the
\* entry returned.
EnterBlock(op, r, frame) ==
  /\ Step(op, "none", 0, r)
  /\ stack' = IF r.exc = "none" THEN Append(stack, frame) ELSE stack

\* `with db:` is entered.
WithEnter ==
  /\ Len(stack) < MaxDepth
  /\ \E F \in FailSets(2) : EnterBlock("__enter__", Enter(World(F)), WithFrame)
  /\ UNCHANGED rt

\* The innermost block is a `with db:` and ends, normally or with e.
WithExit ==
  /\ stack # <<>> /\ Top.kind = "with"
  /\ \E F \in FailSets(2), e \in BlockExcs :
       Step("__exit__", e, 0, Exit(World(F), e))
  /\ stack' = Pop
  /\ UNCHANGED rt

\* The frame of a transaction() entered with outcome r: it keeps conn.
FrameOf(r) == TxnFrame(r.val.n, TableView(r.w), ~r.w.txn[r.val.n].active)
EnterTxn(r) == EnterBlock("transaction_enter", r, FrameOf(r))

\* `with db.transaction():` is entered.
TxnEnter ==
  /\ Len(stack) < MaxDepth
  /\ \E F \in FailSets(2) : EnterTxn(TransactionEnter(World(F)))
  /\ UNCHANGED rt

\* The innermost block is a transaction() and ends, normally or with e.
TxnExit ==
  /\ stack # <<>> /\ Top.kind = "txn"
  /\ \E F \in FailSets(2), e \in BlockExcs :
       Step("transaction_exit", e, 0, TransactionExit(World(F), Top.conn, e))
  /\ stack' = Pop
  /\ UNCHANGED rt

DoCreateTable ==
  \E F \in FailSets(4) :
    Step("create_table", "none", 0, CreateTable(World(F))) /\ UNCHANGED <<stack, rt>>

DoDropTable ==
  \E F \in FailSets(4) :
    Step("drop_table", "none", 0, DropTable(World(F))) /\ UNCHANGED <<stack, rt>>

DoInsert ==
  \E F \in FailSets(4), i \in Ids, v \in OpVals :
    Step("insert", "none", 1, Insert(World(F), Row(i, v), FALSE))
    /\ UNCHANGED <<stack, rt>>

DoInsertMany ==
  \E F \in FailSets(7), rows \in Batches :
    Step("insert_many", "none", Len(rows), InsertMany(World(F), rows, FALSE))
    /\ UNCHANGED <<stack, rt>>

DoSelect ==
  \E F \in FailSets(3) :
    Step("select", "none", 0, Select(World(F), -1, -1)) /\ UNCHANGED <<stack, rt>>

DoSelectOne ==
  \E F \in FailSets(3) :
    Step("select_one", "none", 0, SelectOne(World(F))) /\ UNCHANGED <<stack, rt>>

DoUpdate ==
  \E F \in FailSets(4), i \in Ids, v \in OpVals :
    Step("update", "none", 0, Update(World(F), i, v)) /\ UNCHANGED <<stack, rt>>

DoDelete ==
  \E F \in FailSets(4), i \in Ids :
    Step("delete", "none", 0, Delete(World(F), i)) /\ UNCHANGED <<stack, rt>>

DoExportToJson ==
  \E F \in FailSets(3) :
    Step("export_to_json", "none", 0, ExportToJson(World(F))) /\ UNCHANGED <<stack, rt>>

DoImportFromJson ==
  \E F \in FailSets(7) :
    Step("import_from_json", "none", 0, ImportFromJson(World(F), FALSE))
    /\ UNCHANGED <<stack, rt>>

\* The connection, raw statements, blocks and the two inserts.
Next ==
  \/ DoConnect \/ DoClose \/ DoExecute \/ DoExecuteMany \/ DoCommit \/ DoRollback
  \/ WithEnter \/ WithExit \/ TxnEnter \/ TxnExit
  \/ DoInsert \/ DoInsertMany

Spec == Init /\ [][Next]_vars

\* The table operations, each on its own connection state.
NextOps ==
  \/ DoClose \/ DoCreateTable \/ DoDropTable \/ DoInsert \/ DoInsertMany
  \/ DoSelect \/ DoSelectOne \/ DoUpdate \/ DoDelete
  \/ DoExportToJson \/ DoImportFromJson

SpecOps == Init /\ [][NextOps]_vars

\* The round trip of one table: export_to_json, drop_table, create_table with
\* the same columns, import_from_json, with no driver error.  The table
\* holds any rows over Ids and AllVals (val is a column without a type, so
\* every value is stored as it is bound).
RtTables ==
  {Table({Row(i, f[i]) : i \in S}) : f \in [Ids -> AllVals], S \in SUBSET Ids}

InitRT ==
  /\ connection = 0
  /\ handles = 0
  /\ opened = {}
  /\ disk \in RtTables
  /\ txn = [h \in HandleIds |-> NoTxn]
  /\ file = NoFile
  /\ stack = <<>>
  /\ obs = Obs("init", "none", 0, Out(World({}), "none", RetNone))
  /\ rt = [pc |-> "export", orig |-> disk]
  /\ args = NoArgs
  /\ total_changes = 0
  /\ LogInit

RtExport ==
  /\ rt.pc = "export"
  /\ Step("export_to_json", "none", 0, ExportToJson(World({})))
  /\ rt' = [rt EXCEPT !.pc = "drop"]
  /\ UNCHANGED stack

RtDrop ==
  /\ rt.pc = "drop"
  /\ Step("drop_table", "none", 0, DropTable(World({})))
  /\ rt' = [rt EXCEPT !.pc = "create"]
  /\ UNCHANGED stack

RtCreate ==
  /\ rt.pc = "create"
  /\ Step("create_table", "none", 0, CreateTable(World({})))
  /\ rt' = [rt EXCEPT !.pc = "import"]
  /\ UNCHANGED stack

RtImport ==
  /\ rt.pc = "import"
  /\ Step("import_from_json", "none", 0, ImportFromJson(World({}), FALSE))
  /\ rt' = [rt EXCEPT !.pc = "done"]
  /\ UNCHANGED stack

NextRT == RtExport \/ RtDrop \/ RtCreate \/ RtImport

SpecRT == InitRT /\ [][NextRT]_vars

\* The values of limit and of offset: None or a number.
Pages == {-1} \cup (0..MaxPage)

\* select(table, limit=l, offset=k).
DoSelectPage ==
  \E F \in FailSets(3), l \in Pages, k \in Pages :
    StepWith("select", "none", 0, Select(World(F), l, k), [limit |-> l, offset |-> k])
    /\ UNCHANGED <<stack, rt>>

\* select and select_one on a table that insert and delete fill and empty.
NextSel == DoInsert \/ DoDelete \/ DoSelectPage \/ DoSelectOne

SpecSel == Init /\ [][NextSel]_vars

\* ----------------------------------------------------- dbSQLite.py: DBTool
RECURSIVE Changes(_, _, _)
\* The rows the driver counts after a statement with cursor a, and the rest.
ChangesRest(a, h, sts) ==
  IF a.exc # "none" THEN 0 ELSE a.rowcount + Changes(a.w, h, sts)
\* The rows by which the statements raise conn.total_changes: those changed
\* up to the first statement that fails.
Changes(w, h, sts) ==
  IF sts = <<>> THEN 0 ELSE ChangesRest(Apply(w, h, Head(sts)), h, Tail(sts))

\* The outcome of a DBTool method and conn.total_changes after it.
ToolOut(w, exc, val, tc) == [w |-> w, exc |-> exc, val |-> val, tc |-> tc]

\* finally: self.conn.commit(), after the statement ended with x and commit
\* with c; then return False from the except clause, or i > 0.  An error of
\* the commit leaves the method in place of the return.
ToolReturn(x, c, tc) ==
  IF c.exc # "none" THEN ToolOut(c.w, c.exc, RetNone, tc)
  ELSE IF x.exc # "none" THEN ToolOut(c.w, "none", RetBool(FALSE), tc)
  ELSE ToolOut(c.w, "none", RetBool(tc > 0), tc)
ToolFinally(x, h, tc) == ToolReturn(x, DrvCommit(x.w, h), tc)

\* The counter after a driver call with outcome x that ran the statements.
Counted(w, x, h, sts) ==
  IF x.exc \in {"E_closed", "E_execute", "E_executemany"} THEN 0 ELSE Changes(w, h, sts)

\* executeUpdate(sql, ob): self.c.executemany, i = self.conn.total_changes.
ExecuteUpdateTry(w, x, sts, tc) ==
  ToolFinally(x, w.connection, tc + Counted(w, x, w.connection, sts))
ExecuteUpdate(w, sts, tc) ==
  ExecuteUpdateTry(w, DrvExecuteMany(w, w.connection, sts), sts, tc)

\* executeDelete(sql, ob): self.c.execute, i = self.conn.total_changes.
ExecuteDeleteTry(w, x, st, tc) ==
  ToolFinally(x, w.connection, tc + Counted(w, x, w.connection, <<st>>))
ExecuteDelete(w, st, tc) ==
  ExecuteDeleteTry(w, DrvExecute(w, w.connection, st), st, tc)

\* DBTool.close(): self.c.close(), self.conn.close().
ToolCloseOut(c, tc) == ToolOut(c.w, c.exc, RetNone, tc)
ToolClose(w, tc) == ToolCloseOut(DrvClose(w, w.connection), tc)

\* DBTool.__init__: self.conn = sqlite3.connect(sqlite_path).
InitTool ==
  /\ connection = 1
  /\ handles = 1
  /\ opened = {1}
  /\ disk = Table({})
  /\ txn = [h \in HandleIds |-> NoTxn]
  /\ file = NoFile
  /\ stack = <<>>
  /\ obs = Obs("init", "none", 0, Out(World({}), "none", RetNone))
  /\ rt = RtOff
  /\ args = NoArgs
  /\ total_changes = 0
  /\ LogInit

\* The step of a DBTool method with outcome r.
ToolStep(op, n, r) ==
  /\ r.tc <= MaxChanges
  /\ connection' = r.w.connection
  /\ handles' = r.w.handles
  /\ opened' = r.w.opened
  /\ disk' = r.w.disk
  /\ txn' = r.w.txn
  /\ file' = r.w.file
  /\ obs' = Obs(op, "none", n, r)
  /\ total_changes' = r.tc
  /\ UNCHANGED <<stack, rt, args>>
  /\ UNCHANGED logVars

\* The parameter lists of executeUpdate: for an INSERT or for an UPDATE.
ToolBatches ==
  UNION {[1..n -> {Stmt(k, i, v) : i \in Ids, v \in OpVals}] :
           n \in 1..MaxBatch, k \in {"insert", "update"}}

DoToolUpdate ==
  \E F \in FailSets(2), sts \in ToolBatches :
    ToolStep("executeUpdate", Len(sts), ExecuteUpdate(World(F), sts, total_changes))

DoToolDelete ==
  \E F \in FailSets(2), i \in Ids :
    ToolStep("executeDelete", 1,
             ExecuteDelete(World(F), Stmt("delete", i, NullV), total_changes))

DoToolClose ==
  \E F \in FailSets(1) : ToolStep("close", 0, ToolClose(World(F), total_changes))

NextTool == DoToolUpdate \/ DoToolDelete \/ DoToolClose

SpecTool == InitTool /\ [][NextTool]_vars

\* ------------------------------------------------------ loguru.py: Logger
\* Who can call Logger(): thread 0, which runs the module (logger =
\* Logger().get_logger is its last statement), and any thread once the import
\* has ended; until then the name is in no thread's reach.
CanCallAnytime(t) == calls[t] < MaxCalls
CanCall(t) == IF t = 0 THEN ~imported /\ calls[t] = 0 ELSE imported /\ calls[t] < MaxCalls

\* wrapper_class: if cls not in _instance.
WrapperCheck(t) ==
  /\ pc[t] = "idle" /\ CanCall(t)
  /\ pc' = [pc EXCEPT ![t] = IF instance = 0 THEN "construct" ELSE "return"]
  /\ UNCHANGED <<imported, instance, constructed, made, calls, results>>

\* cls(*args, **kwargs): Logger.__init__ runs logger_add; a new instance.
WrapperConstruct(t) ==
  /\ pc[t] = "construct"
  /\ constructed' = constructed + 1
  /\ made' = [made EXCEPT ![t] = constructed + 1]
  /\ pc' = [pc EXCEPT ![t] = "store"]
  /\ UNCHANGED <<imported, instance, calls, results>>

\* _instance[cls] = the new instance.
WrapperStore(t) ==
  /\ pc[t] = "store"
  /\ instance' = made[t]
  /\ made' = [made EXCEPT ![t] = 0]
  /\ pc' = [pc EXCEPT ![t] = "return"]
  /\ UNCHANGED <<imported, constructed, calls, results>>

\* return _instance[cls]; for thread 0 the import ends with it.
WrapperReturn(t) ==
  /\ pc[t] = "return"
  /\ results' = results \cup {instance}
  /\ calls' = [calls EXCEPT ![t] = @ + 1]
  /\ pc' = [pc EXCEPT ![t] = "idle"]
  /\ imported' = (imported \/ t = 0)
  /\ UNCHANGED <<instance, constructed, made>>

NextLog ==
  \/ \E t \in Threads : WrapperCheck(t) /\ UNCHANGED dbVars
  \/ \E t \in Threads : WrapperConstruct(t) /\ UNCHANGED dbVars
  \/ \E t \in Threads : WrapperStore(t) /\ UNCHANGED dbVars
  \/ \E t \in Threads : WrapperReturn(t) /\ UNCHANGED dbVars

SpecLog == Init /\ [][NextLog]_vars

\* --------------------------------------------------------------- formulas
Trace        == obs.trace
TableViewNow == TableView(World({}))
CountNow     == Cardinality(TableViewNow.rows)
IsCall(ev)   == ev.k \notin LogKinds
\* A driver call of the last operation, other than the probe, raised.
CallFailed(i) == IsCall(Trace[i]) /\ Trace[i].k # "probe" /\ ~Trace[i].ok
\* The environment failed no driver call of the last operation.
NoInjectedFailure ==
  \A i \in 1..Len(Trace) : Trace[i].e \notin
     {"E_probe", "E_open", "E_execute", "E_executemany", "E_commit", "E_rollback", "E_close"}
RollbackSucceeded == \E i \in 1..Len(Trace) : Trace[i].k = "rollback" /\ Trace[i].ok

\* C1: a transaction() scope that ends by an exception leaves the table as it
\* was when the scope was entered (stated for the most favourable case:
\* nothing was pending at the entry, the scope's handle is still the cached
\* one, and the rollback succeeded).
C1_ScopeRollsBackAll ==
  [][(/\ obs'.op = "transaction_exit" /\ obs'.e # "none"
      /\ Top.clean /\ Top.conn = connection /\ RollbackSucceeded')
       => TableViewNow' = Top.snap]_vars

\* C2: insert_many with N >= 1 records returns True with count(table) raised
\* by exactly N, or False with count(table) as it was just before the call
\* (stated for the calls in which the environment fails no driver call).
C2_InsertManyAllOrNothing ==
  [][(obs'.op = "insert_many" /\ obs'.n >= 1 /\ NoInjectedFailure')
       => \/ obs'.ret = RetBool(TRUE)  /\ CountNow' = CountNow + obs'.n
          \/ obs'.ret = RetBool(FALSE) /\ CountNow' = CountNow]_vars

\* C3: once __exit__ has finished, on every exit path, the handle is closed
\* and self.connection is None (stated for the exits in which the driver's
\* close, if called, succeeds).
C3_ExitAlwaysCloses ==
  (obs.op = "__exit__" /\ \A i \in 1..Len(Trace) : Trace[i].k = "close" => Trace[i].ok)
    => connection = 0 /\ opened = {}

\* C4: connect, close, execute, executemany, commit and rollback log a driver
\* error and then raise that same error; none returns normally after one.
C4_PropagatingTier ==
  obs.op \in {"connect", "close", "execute", "executemany", "commit", "rollback"}
    => \A i \in 1..Len(Trace) :
         CallFailed(i) =>
           /\ obs.exc = Trace[i].e
           /\ \E j \in (i + 1)..Len(Trace) :
                Trace[j].k = "log_error" /\ Trace[j].e = Trace[i].e

\* The value a table operation returns on failure.
FailureValue(op) ==
  CASE op \in {"create_table", "drop_table", "insert_many", "export_to_json",
               "import_from_json"}   -> RetBool(FALSE)
    [] op \in {"insert", "select_one"} -> RetNone
    [] op = "select"                   -> RetRows(<<>>)
    [] op \in {"update", "delete"}     -> RetInt(0)

\* C5: a table operation in which a driver call raises, at any step, raises
\* nothing and returns its failure value.
C5_SoftFailTier ==
  (/\ obs.op \in {"create_table", "drop_table", "insert", "insert_many", "select",
                  "select_one", "update", "delete", "export_to_json", "import_from_json"}
   /\ \E i \in 1..Len(Trace) : CallFailed(i))
    => obs.exc = "none" /\ obs.ret = FailureValue(obs.op)

\* C6: after close() has returned self.connection is None, whether or not the
\* driver's close succeeded, and close() on a closed layer makes no driver
\* call and changes nothing.
C6_CloseForgetsHandle ==
  [][obs'.op = "close" =>
       /\ connection' = 0
       /\ connection = 0 =>
            /\ obs'.trace = <<>>
            /\ UNCHANGED <<connection, handles, opened, disk, txn, file>>]_vars

\* C7: when the body of a transaction() scope raises, the scope calls
\* rollback and no commit; the caller sees the body's exception when the
\* rollback succeeds, and the rollback's error, logged before it is raised,
\* when the rollback fails.
C7_ScopeRollbackThenRaise ==
  (obs.op = "transaction_exit" /\ obs.e # "none") =>
    /\ \A i \in 1..Len(Trace) : Trace[i].k # "commit"
    /\ \E i \in 1..Len(Trace) :
         /\ Trace[i].k = "rollback"
         /\ Trace[i].ok => obs.exc = obs.e
         /\ ~Trace[i].ok =>
              /\ obs.exc = Trace[i].e
              /\ \E j \in (i + 1)..Len(Trace) :
                   Trace[j].k = "log_error" /\ Trace[j].e = Trace[i].e

\* C8: the instance owns at most one open connection: every handle open at
\* the driver is the cached one.
C8_OneOpenConnection == opened \subseteq {connection}

\* C10: no execute, commit or rollback is issued on a handle that has been
\* closed.
C10_NoUseAfterClose ==
  \A i \in 1..Len(Trace) :
    Trace[i].k \in {"probe", "execute", "executemany", "commit", "rollback"} => Trace[i].live

\* C9 as stated: for every table content, export_to_json, drop_table,
\* create_table and import_from_json leave a table with the original rows.
C9_RoundTrip == rt.pc = "done" => disk = rt.orig

\* C9 amended: the round trip gives back the original rows of every table
\* whose values json can write (NULL, integer, real, text: no BLOB), the
\* empty table included.
C9_RoundTripJsonValues ==
  (rt.pc = "done" /\ \A r \in rt.orig.rows : Serializable(r.val))
    => disk = rt.orig /\ TableViewNow = rt.orig

\* A full table with a real and a text value has made the round trip.
C9_Witness ==
  /\ rt.pc = "done" /\ obs.op = "import_from_json" /\ obs.ret = RetBool(TRUE)
  /\ Cardinality(rt.orig.rows) = MaxId
  /\ \E r \in rt.orig.rows : r.val.t = "real"
  /\ \E r \in rt.orig.rows : r.val.t = "text"
  /\ disk = rt.orig

\* The table operations that issue a statement changing the table or the schema.
MutatingOps == {"create_table", "drop_table", "insert", "insert_many", "update", "delete"}

\* C11: when a mutating table operation has returned, with success or with
\* its failure value, no change it made is still pending: a transaction open
\* on a handle holds the table as that handle read it before the operation.
C11_NothingLeftPending ==
  [][obs'.op \in MutatingOps =>
       \A h \in opened' : txn'[h].active => txn'[h].tbl = ViewOf(World({}), h)]_vars

\* C12: in every interleaving of the callers of Logger(), Logger.__init__
\* (and with it logger_add) runs at most once, and every call returns the
\* same instance.
C12_OneLogger == constructed <= 1 /\ Cardinality(results) <= 1

\* Two threads are inside wrapper_class at once, others have returned, and
\* each thread has ended a call before.
C12_Witness ==
  /\ \E t, u \in Threads : t # u /\ pc[t] = "return" /\ pc[u] = "return"
  /\ \A t \in Threads : calls[t] >= 1
  /\ constructed = 1 /\ results = {1}

\* The rows of the table in order, and those at positions k .. k+l-1 of it
\* (from k on when no limit is given).
Ordered == RowSeq(TableViewNow.rows)
PageOf(seq, l, k) ==
  SubSeqFrom(seq, IF k < 0 THEN 0 ELSE k, IF l < 0 THEN Len(seq) ELSE l)

\* C13: select with limit L >= 0 and offset K >= 0 returns the rows at
\* positions K .. K+L-1 of the ordered row sequence, with the limit omitted
\* all rows from K on, and select_one the first row or None (stated for the
\* calls in which the environment fails no driver call).
C13_SelectPage ==
  /\ (obs.op = "select" /\ NoInjectedFailure)
       => obs.ret = RetRows(PageOf(Ordered, args.limit, args.offset))
  /\ (obs.op = "select_one" /\ NoInjectedFailure)
       => obs.ret = (IF Ordered # <<>> THEN RetRow(Ordered[1]) ELSE RetNone)

\* The last DBTool call ran with the connection open and no driver call
\* failed by the environment.
ToolCallRan ==
  /\ obs.op \in {"executeUpdate", "executeDelete"}
  /\ NoInjectedFailure
  /\ \A i \in 1..Len(Trace) : Trace[i].live

\* C14: executeUpdate and executeDelete return True exactly when their own
\* statement changed at least one row, False when it changed none or
\* failed, and a call that fails leaves nothing of its statement committed
\* (stated for the calls on the open connection in which the environment
\* fails no driver call).
C14_ReportsOwnStatement ==
  [][ToolCallRan' =>
       /\ obs'.exc = "none"
       /\ (obs'.ret = RetBool(TRUE)) <=>
            (Trace'[1].ok /\ total_changes' - total_changes >= 1)
       /\ obs'.ret \in {RetBool(TRUE), RetBool(FALSE)}
       /\ ~Trace'[1].ok => disk' = disk]_vars

====
